---------------------------- MODULE Spec2Model ----------------------------
(***************************************************************************)
(* MEMBRANA front end: the bezier curve editor of the SVG preview panel.   *)
(*                                                                         *)
(* State: state.membrane (shape, bezier_points, bezier_handles,            *)
(* bezier_knot_modes), the marker overlay of the displayed <svg> with the  *)
(* arrays its listeners captured, the drag listeners registered on window, *)
(* the debounce timer and the requests in flight.                          *)
(*                                                                         *)
(* Representation.                                                         *)
(*  - Arrays are sequences read with 0-based indices through At.  A        *)
(*    missing array entry (a hole, undefined) is Null.                     *)
(*  - A coordinate c px is the integer c * Scale, so that the halving of   *)
(*    'Add point' is exact.                                                *)
(*  - A handle offset v is kept in sixths of a unit as [dir, mag], its     *)
(*    direction and a vector of its length: the division by 6.0 of the     *)
(*    Catmull-Rom formula and the smooth-mode mirror are exact.            *)
(*  - JavaScript arrays are objects: the listeners of a marker keep the    *)
(*    arrays they were built with.  mkPoints, mkHandles and mkModes say    *)
(*    whether that array still is the model's (alias) or what the          *)
(*    replaced array now holds (val).                                      *)
(***************************************************************************)
EXTENDS Integers, Sequences, FiniteSets, TLC

\* ── Bounds ────────────────────────────────────────────────────────────
\* gestures that put new numbers into the state (insert, 'Add point', a
\* pointer-move of a drag, a wheel event, a pan start) per behaviour
MaxEdits == 1
\* drag listener pairs registered on window at the same time
MaxDrags == 2
\* render requests awaiting their response, per transport
MaxInflight == 1
\* knots of a sequence handed to the synthesizer or the path builder on its own
MaxKnots == 3
\* wheel events of a session that only zooms
MaxWheels == 24

Scale == 2 ^ MaxEdits
Px(n) == n * Scale
Pt(x, y) == <<Px(x), Px(y)>>

\* ── JavaScript arrays ─────────────────────────────────────────────────
Null == <<>>
NoMode == "undefined"

At(s, i) == IF i >= 0 /\ i < Len(s) THEN s[i + 1] ELSE Null
ModeAt(s, i) == IF i >= 0 /\ i < Len(s) THEN s[i + 1] ELSE NoMode

\* Array.prototype.splice(idx, 1)
SpliceOut(s, idx) ==
    IF idx < Len(s)
    THEN [k \in 1..(Len(s) - 1) |-> IF k <= idx THEN s[k] ELSE s[k + 1]]
    ELSE s

\* Array.prototype.splice(idx, 0, v): the start is clamped to the length
SpliceIn(s, idx, v) ==
    LET at == IF idx < Len(s) THEN idx ELSE Len(s)
    IN [k \in 1..(Len(s) + 1) |->
          IF k <= at THEN s[k] ELSE IF k = at + 1 THEN v ELSE s[k - 1]]

\* a[idx] = v: an index past the end extends the array and leaves holes
SetAt(s, idx, v, hole) ==
    IF idx < Len(s)
    THEN [s EXCEPT ![idx + 1] = v]
    ELSE [k \in 1..(idx + 1) |->
            IF k <= Len(s) THEN s[k] ELSE IF k = idx + 1 THEN v ELSE hole]

HasHole(pts) == \E k \in 1..Len(pts) : pts[k] = Null

\* ── Vectors ───────────────────────────────────────────────────────────
Abs(a) == IF a < 0 THEN -a ELSE a

RECURSIVE Gcd(_, _)
Gcd(a, b) == IF b = 0 THEN a ELSE Gcd(b, a % b)

Max(a, b) == IF a >= b THEN a ELSE b
Min(a, b) == IF a <= b THEN a ELSE b

\* ── Zoom ──────────────────────────────────────────────────────────────
\* zoomLevel 1.0, held to seven decimal places: a product with 0.9 or 1.1
\* is cut off at the seventh place, so that after k wheel events the value
\* is less than k / ZoomUnit away from the exact product
ZoomUnit == 10000000
ZoomMin == ZoomUnit \div 10
ZoomMax == 5 * ZoomUnit

\* variant: a wheel event changes the zoom factor by a fifth
ScaledByFifth(z, d) == (z * (IF d > 10 THEN 12 ELSE 8)) \div 10

\* zoomLevel * delta, delta in tenths
Scaled(z, d) == (z * d) \div 10

\* variant: the product is taken as it is
ClampedNot(z) == z

\* Math.max(0.1, Math.min(5, ...))
Clamped(z) == Max(ZoomMin, Min(ZoomMax, z))

\* variant: the wheel is ignored
ZoomedNot(z, d) == z

\* Math.max(0.1, Math.min(5, zoomLevel * delta))
Zoomed(z, d) == Clamped(Scaled(z, d))

\* the offset v (in sixths of a unit) as its direction (v reduced to lowest terms)
\* and its length (that of mag, the absolute coordinates of v in descending order)
Vec(v) ==
    LET g == Gcd(Abs(v[1]), Abs(v[2]))
    IN IF g = 0
       THEN [dir |-> <<0, 0>>, mag |-> <<0, 0>>]
       ELSE [dir |-> <<v[1] \div g, v[2] \div g>>,
             mag |-> <<Max(Abs(v[1]), Abs(v[2])), Min(Abs(v[1]), Abs(v[2]))>>]

Neg(h) == [dir |-> <<-h.dir[1], -h.dir[2]>>, mag |-> h.mag]

\* Math.hypot(dx, dy) > 0.01 for the pointer offset d, in units of 1/Scale px
LongerThanEps(d) ==
    \/ Max(Abs(d[1]), Abs(d[2])) >= Scale
    \/ 10000 * (d[1] * d[1] + d[2] * d[2]) > Scale * Scale

\* ── Catmull-Rom handle computation ────────────────────────────────────
\* reading a coordinate of a missing knot raises a TypeError
computeCatmullRomHandlesThrows(knots) == Len(knots) >= 2 /\ HasHole(knots)

\* variant: the end knots take themselves as their missing neighbour
computeCatmullRomHandlesUnmirrored(knots) ==
    LET n == Len(knots)
        Pim1(i) == IF i = 0 THEN At(knots, i) ELSE At(knots, i - 1)
        Pip1(i) == IF i = n - 1 THEN At(knots, i) ELSE At(knots, i + 1)
        Out(i) == Vec(<<Pip1(i)[1] - Pim1(i)[1], Pip1(i)[2] - Pim1(i)[2]>>)
    IN IF n < 2 THEN <<>>
       ELSE [k \in 1..n |-> <<Neg(Out(k - 1)), Out(k - 1)>>]

computeCatmullRomHandles(knots) ==
    LET n == Len(knots)
        Pim1(i) == IF i = 0
                   THEN <<2 * At(knots, i)[1] - At(knots, 1)[1],
                          2 * At(knots, i)[2] - At(knots, 1)[2]>>
                   ELSE At(knots, i - 1)
        Pip1(i) == IF i = n - 1
                   THEN <<2 * At(knots, i)[1] - At(knots, i - 1)[1],
                          2 * At(knots, i)[2] - At(knots, i - 1)[2]>>
                   ELSE At(knots, i + 1)
        Out(i) == Vec(<<Pip1(i)[1] - Pim1(i)[1], Pip1(i)[2] - Pim1(i)[2]>>)
    IN IF n < 2 THEN <<>>
       ELSE [k \in 1..n |-> <<Neg(Out(k - 1)), Out(k - 1)>>]

AllSmooth(pts) == [k \in 1..Len(pts) |-> "smooth"]

\* _buildBezierPathD and _buildHandleGroup read every knot's coordinates
PathThrows(knots) == Len(knots) >= 2 /\ HasHole(knots)
GroupThrows(points) == HasHole(points)

\* variant: the inbound side is read whichever side is asked for
SideAtInbound(handles, i, k) ==
    LET entry == At(handles, i)
    IN IF Len(entry) < k THEN Null ELSE entry[1]

\* handles[i][k - 1] where handles[i] exists and is that long, else nothing
SideAt(handles, i, k) ==
    LET entry == At(handles, i)
    IN IF Len(entry) < k THEN Null ELSE entry[k]

\* the handle tips _buildHandleGroup draws: knot i gets an in-tip when i > 0 and
\* an out-tip when i is not the last knot, if that side of handles[i] exists
TipsOf(points, handles) ==
    {<<i, "in">> : i \in {j \in 1..(Len(points) - 1) : SideAt(handles, j, 1) # Null}}
    \cup {<<i, "out">> : i \in {j \in 0..(Len(points) - 2) : SideAt(handles, j, 2) # Null}}

\* ── Client-side path computation ──────────────────────────────────────
\* A control point is kept as the knot it hangs on and its offset in sixths.
Ctl(knot, off) == [at |-> knot, off |-> off]

MoveTo(p) == [op |-> "M", to |-> p]
LineTo(p) == [op |-> "L", to |-> p]
CurveTo(cp1, cp2, p) == [op |-> "C", cp1 |-> cp1, cp2 |-> cp2, to |-> p]

\* variant: the inbound handle is looked up on knot i instead of knot i + 1
SegmentInOfSame(knots, handles, i) ==
    LET n == Len(knots)
        p_i == At(knots, i)
        p_ip1 == At(knots, i + 1)
        p_im1 == IF i = 0
                 THEN <<2 * p_i[1] - p_ip1[1], 2 * p_i[2] - p_ip1[2]>>
                 ELSE At(knots, i - 1)
        p_ip2 == IF i + 2 >= n
                 THEN <<2 * p_ip1[1] - p_i[1], 2 * p_ip1[2] - p_i[2]>>
                 ELSE At(knots, i + 2)
        out_h == SideAt(handles, i, 2)
        in_h == SideAt(handles, i, 1)
        cp1 == IF out_h # Null
               THEN Ctl(p_i, out_h)
               ELSE Ctl(p_i, Vec(<<p_ip1[1] - p_im1[1], p_ip1[2] - p_im1[2]>>))
        cp2 == IF in_h # Null
               THEN Ctl(p_ip1, in_h)
               ELSE Ctl(p_ip1, Neg(Vec(<<p_ip2[1] - p_i[1], p_ip2[2] - p_i[2]>>)))
    IN CurveTo(cp1, cp2, p_ip1)

\* the segment from knot i to knot i + 1: Catmull-Rom control points, each
\* overridden by the explicit handle of its knot when there is one
Segment(knots, handles, i) ==
    LET n == Len(knots)
        p_i == At(knots, i)
        p_ip1 == At(knots, i + 1)
        p_im1 == IF i = 0
                 THEN <<2 * p_i[1] - p_ip1[1], 2 * p_i[2] - p_ip1[2]>>
                 ELSE At(knots, i - 1)
        p_ip2 == IF i + 2 >= n
                 THEN <<2 * p_ip1[1] - p_i[1], 2 * p_ip1[2] - p_i[2]>>
                 ELSE At(knots, i + 2)
        out_h == SideAt(handles, i, 2)
        in_h == SideAt(handles, i + 1, 1)
        cp1 == IF out_h # Null
               THEN Ctl(p_i, out_h)
               ELSE Ctl(p_i, Vec(<<p_ip1[1] - p_im1[1], p_ip1[2] - p_im1[2]>>))
        cp2 == IF in_h # Null
               THEN Ctl(p_ip1, in_h)
               ELSE Ctl(p_ip1, Neg(Vec(<<p_ip2[1] - p_i[1], p_ip2[2] - p_i[2]>>)))
    IN CurveTo(cp1, cp2, p_ip1)

\* variant: two knots without handles are joined by a curve like any others
_buildBezierPathDCurved(knots, handles) ==
    LET n == Len(knots)
    IN IF n < 2 THEN <<>>
       ELSE <<MoveTo(knots[1])>> \o [k \in 1..(n - 1) |-> Segment(knots, handles, k - 1)]

\* the path as its sequence of drawing commands
_buildBezierPathD(knots, handles) ==
    LET n == Len(knots)
    IN IF n < 2 THEN <<>>
       ELSE IF n = 2 /\ Len(handles) = 0
       THEN <<MoveTo(knots[1]), LineTo(knots[2])>>
       ELSE <<MoveTo(knots[1])>> \o [k \in 1..(n - 1) |-> Segment(knots, handles, k - 1)]

\* ── Inputs ────────────────────────────────────────────────────────────
DefaultPoints == <<Pt(200, 300), Pt(450, 250), Pt(750, 350), Pt(1000, 300)>>

\* the reply of /api/sample-curve?num_points=5 for the default linear membrane
SampledPoints == <<Pt(200, 300), Pt(400, 300), Pt(600, 300), Pt(800, 300), Pt(1000, 300)>>

\* where the user double-clicks: left of every knot, at the x of a knot, right of every knot
InsertPts == {Pt(100, 320), Pt(450, 280), Pt(1100, 320)}

\* where the pointer is on a pointer-move
PointerPts == {Pt(600, 400)}

\* where the pointer is on a pointer-move of a handle drag: away from the knot
\* of the handle and exactly on it
TipPts == PointerPts \cup {Pt(400, 300)}

\* e.clientX, e.clientY of the pointer events
ClientPts == {<<0, 0>>, <<30, 20>>}

\* the knot markers the user works on: the first and the last one drawn
KnotChoices(n) == {0, n - 1} \cap 0..(n - 1)

\* the marker the mode toggle is tried on: the first one
ToggleChoices(n) == {0} \cap 0..(n - 1)

\* the handle tips the user works on: those of knot 1 and the in-tip of the last knot
TipChoices(n, tips) == {<<1, "in">>, <<1, "out">>, <<n - 1, "in">>} \cap tips

\* the knot whose two handle tips are dragged in turn, and its marker
TipKnot == 1
TipKnotChoices(n) == {TipKnot} \cap 0..(n - 1)
TipKnotTips(tips) == {<<TipKnot, "in">>, <<TipKnot, "out">>} \cap tips


\* ── State ─────────────────────────────────────────────────────────────
VARIABLES
    shape,              \* state.membrane.shape: "linear" or "bezier"
    bezier_points,      \* state.membrane.bezier_points
    bezier_handles,     \* state.membrane.bezier_handles
    bezier_knot_modes,  \* state.membrane.bezier_knot_modes
    hasSvg,             \* #svg-preview holds an <svg>
    preview,            \* the displayed <svg> holds a .bezier-drag-preview path
    previewD,           \* the d attribute of that path, as its drawing commands
    mkN,                \* knot markers of the displayed overlay (0: no overlay)
    mkTips,             \* handle-tip markers of the displayed overlay: <<idx, side>>
    mkPoints,           \* the points array the markers' listeners captured
    mkHandles,          \* the handles array they captured
    mkModes,            \* the modes array they captured
    _draggingHandle,     \* _draggingHandle
    drags,              \* the onMove/onUp listener pairs registered on window, in order
    _debounceTimer,      \* _debounceTimer is pending
    inflight,           \* render requests transmitted and not yet answered
    requests,           \* the requests in flight in the order sent: [via, late], late if
                        \* sent before the newest answered request
    wsReady,            \* wsReady
    wsStatus,           \* what the #ws-status indicator shows
    ws,                 \* the socket ws refers to: "connecting", "open", "failed"
                        \* (error reported, close to come) or "closed"
    reconnects,         \* pending timers of setTimeout(connectWebSocket, 2000)
    strays,             \* sockets connecting or open that ws no longer refers to
    stale,              \* the displayed render answers an older request than the newest answered
    converting,         \* /api/sample-curve fetches not yet answered
    zoomLevel,          \* zoomLevel, in units of 1 / ZoomUnit
    pan,                \* <<panX, panY>>
    isPanning,          \* isPanning
    startPan,           \* <<startPanX, startPanY>>
    edits,              \* editing gestures made so far
    ev                  \* the handler that ran last and what it did

modelVars == <<shape, bezier_points, bezier_handles, bezier_knot_modes>>
markerVars == <<hasSvg, preview, previewD, mkN, mkTips, mkPoints, mkHandles, mkModes>>
dragVars == <<_draggingHandle, drags>>
sockVars == <<ws, reconnects, strays>>
netVars == <<_debounceTimer, inflight, requests, stale, wsReady, wsStatus, sockVars, converting>>
viewVars == <<zoomLevel, pan, isPanning, startPan>>
vars == <<modelVars, markerVars, dragVars, netVars, viewVars, edits, ev>>

\* a captured array: still the model's array, or a replaced array and its content
Alias == [alias |-> TRUE, val |-> <<>>]
Held(v) == [alias |-> FALSE, val |-> v]
NoRef == Held(<<>>)
Deref(ref, cur) == IF ref.alias THEN cur ELSE ref.val
\* the model got a new array object: a listener that held the old one keeps it
Replaced(ref, old) == IF ref.alias THEN Held(old) ELSE ref

Ev(name, reqs, threw) == [name |-> name, reqs |-> reqs, threw |-> threw]

Init ==
    /\ shape = "linear"
    /\ bezier_points = DefaultPoints
    /\ bezier_handles = <<>>
    /\ bezier_knot_modes = <<>>
    /\ hasSvg = FALSE
    /\ preview = FALSE
    /\ previewD = <<>>
    /\ mkN = 0
    /\ mkTips = {}
    /\ mkPoints = NoRef
    /\ mkHandles = NoRef
    /\ mkModes = NoRef
    /\ _draggingHandle = FALSE
    /\ drags = <<>>
    /\ _debounceTimer = TRUE
    /\ inflight = 0
    /\ requests = <<>>
    /\ wsReady = FALSE
    /\ wsStatus = "unset"
    /\ ws = "connecting"
    /\ reconnects = 0
    /\ strays = 0
    /\ stale = FALSE
    /\ converting = 0
    /\ zoomLevel = ZoomUnit
    /\ pan = <<0, 0>>
    /\ isPanning = FALSE
    /\ startPan = <<0, 0>>
    /\ edits = 0
    /\ ev = Ev("init", 1, FALSE)

\* ── RenderSync ────────────────────────────────────────────────────────
\* variant: the call arms no timer
requestRenderLost == _debounceTimer' = _debounceTimer

\* requestRender: clearTimeout, setTimeout(..., 100)
requestRender == _debounceTimer' = TRUE

\* variant: the state is sent on the socket whatever its flag says
TransportSocket == "ws"

\* if (ws && wsReady) ws.send(...) else fetch('/api/render', ...); ws is
\* assigned before the first timer is armed
Transport == IF wsReady THEN "ws" ELSE "rest"

\* the positions of the requests in flight that went over transport via
Via(reqs, via) == {k \in 1..Len(reqs) : reqs[k].via = via}

\* the requests whose reply can come next: any REST request, the oldest WebSocket one
Answerable(reqs) ==
    {k \in 1..Len(reqs) : reqs[k].via = "ws" => \A j \in 1..(k - 1) : reqs[j].via # "ws"}

\* the requests left in flight after the reply to request k: those sent before it are late
AfterReply(reqs, k) ==
    [j \in 1..(Len(reqs) - 1) |->
        IF j < k THEN [reqs[j] EXCEPT !.late = TRUE] ELSE reqs[j + 1]]

\* the requests left in flight after request k failed
AfterError(reqs, k) == [j \in 1..(Len(reqs) - 1) |-> IF j < k THEN reqs[j] ELSE reqs[j + 1]]

\* JSON.stringify(state): the curve part of the scene state
Payload == <<shape, bezier_points, bezier_handles, bezier_knot_modes>>

\* the timer callback: ws.send(JSON.stringify(state)) or the REST POST
TimerFire ==
    /\ _debounceTimer
    /\ Cardinality(Via(requests, Transport)) < MaxInflight
    /\ _debounceTimer' = FALSE
    /\ inflight' = inflight + 1
    /\ requests' = Append(requests, [via |-> Transport, late |-> FALSE])
    /\ ev' = Ev("send", 0, FALSE) @@ [sent |-> Payload]
    /\ UNCHANGED <<modelVars, markerVars, dragVars, stale, wsReady, sockVars, wsStatus, converting,
                   edits>>
    /\ UNCHANGED viewVars

\* _ensureHandles, up to the TypeError of computeCatmullRomHandles on a missing knot
EnsureThrows == 
    /\ Len(bezier_handles) # Len(bezier_points)
    /\ computeCatmullRomHandlesThrows(bezier_points)

\* variant: the handles are regenerated at every reply
EnsuredHandlesAlways ==
    IF HasHole(bezier_points) THEN bezier_handles
    ELSE computeCatmullRomHandles(bezier_points)

EnsuredHandles ==
    IF Len(bezier_handles) # Len(bezier_points)
    THEN computeCatmullRomHandles(bezier_points)
    ELSE bezier_handles

EnsuredModes ==
    IF Len(bezier_knot_modes) # Len(bezier_points)
    THEN AllSmooth(bezier_points)
    ELSE bezier_knot_modes

\* a reply with status ok: onSvgUpdate -> updatePreview -> _addBezierHandles.
\* Replies come in any order; each one is displayed as it comes.
RenderOk ==
    /\ inflight > 0
    /\ inflight' = inflight - 1
    /\ \E k \in Answerable(requests) :
         /\ requests' = AfterReply(requests, k)
         /\ stale' = requests[k].late
    /\ hasSvg' = TRUE
    /\ preview' = FALSE
    /\ previewD' = <<>>
    /\ drags' = [k \in 1..Len(drags) |-> [drags[k] EXCEPT !.attached = FALSE]]
    /\ IF shape # "bezier"
       THEN /\ mkN' = 0 /\ mkTips' = {}
            /\ mkPoints' = NoRef /\ mkHandles' = NoRef /\ mkModes' = NoRef
            /\ UNCHANGED <<bezier_handles, bezier_knot_modes>>
            /\ ev' = Ev("renderOk", 0, FALSE)
       ELSE IF EnsureThrows
       THEN /\ mkN' = 0 /\ mkTips' = {}
            /\ mkPoints' = NoRef /\ mkHandles' = NoRef /\ mkModes' = NoRef
            /\ UNCHANGED <<bezier_handles, bezier_knot_modes>>
            /\ ev' = Ev("renderOk", 0, TRUE)
       ELSE /\ bezier_handles' = EnsuredHandles
            /\ bezier_knot_modes' = EnsuredModes
            /\ IF GroupThrows(bezier_points)
               THEN /\ mkN' = 0 /\ mkTips' = {}
                    /\ mkPoints' = NoRef /\ mkHandles' = NoRef /\ mkModes' = NoRef
                    /\ ev' = Ev("renderOk", 0, TRUE)
               ELSE /\ mkN' = Len(bezier_points)
                    /\ mkTips' = TipsOf(bezier_points, EnsuredHandles)
                    /\ mkPoints' = Alias /\ mkHandles' = Alias /\ mkModes' = Alias
                    /\ ev' = Ev("renderOk", 0, FALSE)
    /\ wsStatus' = IF ev'.threw THEN wsStatus ELSE "connected"
    /\ UNCHANGED <<shape, bezier_points, _draggingHandle, _debounceTimer, wsReady, sockVars, converting,
                   edits>>
    /\ UNCHANGED viewVars

\* the indicator after a failed request: onStatusChange('error') on the socket,
\* console.error only on the REST fallback
StatusAfterFail(via, shown) == IF via = "ws" THEN "error" ELSE shown

\* a reply with status error on the socket, a failed or svg-less reply of the
\* REST fallback: the display is kept
RenderFail ==
    /\ inflight > 0
    /\ inflight' = inflight - 1
    /\ \E k \in Answerable(requests) :
         /\ requests' = AfterError(requests, k)
         /\ wsStatus' = StatusAfterFail(requests[k].via, wsStatus)
    /\ ev' = Ev("renderError", 0, FALSE)
    /\ UNCHANGED <<modelVars, markerVars, dragVars, _debounceTimer, stale, wsReady, sockVars, converting,
                   edits>>
    /\ UNCHANGED viewVars


\* a socket that is connecting or open
Live(sock) == sock \in {"connecting", "open"}

\* ws.onopen
WsOpen ==
    /\ ws = "connecting"
    /\ ws' = "open"
    /\ wsReady' = TRUE
    /\ wsStatus' = "connected"
    /\ ev' = Ev("wsOpen", 0, FALSE)
    /\ UNCHANGED <<modelVars, markerVars, dragVars, _debounceTimer, inflight, requests, stale,
                   reconnects, strays, converting, viewVars, edits>>

\* the requests a closed socket leaves in flight: those of the REST fallback
RECURSIVE ViaRest(_)
ViaRest(reqs) ==
    IF reqs = <<>> THEN <<>>
    ELSE IF Head(reqs).via = "rest" THEN <<Head(reqs)>> \o ViaRest(Tail(reqs))
    ELSE ViaRest(Tail(reqs))

\* ws.onerror, which the close of the socket follows: the replies to the
\* messages sent on the socket are lost
WsError ==
    /\ Live(ws)
    /\ ws' = "failed"
    /\ wsReady' = FALSE
    /\ requests' = ViaRest(requests)
    /\ inflight' = Len(ViaRest(requests))
    /\ wsStatus' = "error"
    /\ ev' = Ev("wsError", 0, FALSE)
    /\ UNCHANGED <<modelVars, markerVars, dragVars, _debounceTimer, stale, reconnects, strays,
                   converting, viewVars, edits>>

\* variant: a close arms no reconnect
ScheduledNot(timers) == timers

\* setTimeout(connectWebSocket, 2000)
Scheduled(timers) == timers + 1

\* ws.onclose: the replies to the messages sent on the socket are lost
WsClose ==
    /\ Live(ws) \/ ws = "failed"
    /\ ws' = "closed"
    /\ wsReady' = FALSE
    /\ requests' = ViaRest(requests)
    /\ inflight' = Len(ViaRest(requests))
    /\ wsStatus' = "disconnected"
    /\ reconnects' = Scheduled(reconnects)
    /\ ev' = Ev("wsClose", 0, FALSE)
    /\ UNCHANGED <<modelVars, markerVars, dragVars, _debounceTimer, stale, strays, converting,
                   viewVars, edits>>

\* the reconnect timer fires: connectWebSocket assigns a new socket to ws
Reconnect ==
    /\ reconnects > 0
    /\ reconnects' = reconnects - 1
    /\ strays' = IF Live(ws) THEN strays + 1 ELSE strays
    /\ ws' = "connecting"
    /\ ev' = Ev("reconnect", 0, FALSE)
    /\ UNCHANGED <<modelVars, markerVars, dragVars, _debounceTimer, inflight, requests, stale,
                   wsReady, wsStatus, converting, viewVars, edits>>

\* ── Double-click: insert a knot ───────────────────────────────────────
\* "Insert at correct index sorted by X": the first i with x < pts[i][0]
\* variant: the search stops at a knot of equal x
InsertIndexAtEqual(pts, x) ==
    LET after == {i \in 0..(Len(pts) - 1) : At(pts, i) # Null /\ x <= At(pts, i)[1]}
    IN IF after = {} THEN Len(pts)
       ELSE CHOOSE i \in after : \A j \in after : i <= j

InsertIndex(pts, x) ==
    LET after == {i \in 0..(Len(pts) - 1) : At(pts, i) # Null /\ x < At(pts, i)[1]}
    IN IF after = {} THEN Len(pts)
       ELSE CHOOSE i \in after : \A j \in after : i <= j

\* the search loop reads pts[i][0] of a missing knot before it finds the index
InsertIndexThrows(pts, x) ==
    \E h \in 0..(Len(pts) - 1) : At(pts, h) = Null /\ h < InsertIndex(pts, x)

\* the handle array is regenerated only when it is not empty
InsertHandles(handles, pts1) ==
    IF Len(handles) > 0 THEN computeCatmullRomHandles(pts1) ELSE handles

\* the mode array is extended only when it is not empty
InsertModes(modes, idx) ==
    IF Len(modes) > 0 THEN SpliceIn(modes, idx, "smooth") ELSE modes

\* svg.getScreenCTM() is null: the dblclick listener returns
InsertSkipped(ctm) == ~ctm

\* the dblclick listener of the preview container, the pointer at p, the
\* surface having a screen transform or not (ctm)
Insert(p, ctm) ==
    /\ shape = "bezier"
    /\ hasSvg
    /\ ~InsertSkipped(ctm) => edits < MaxEdits
    /\ edits' = IF InsertSkipped(ctm) THEN edits ELSE edits + 1
    /\ LET pts == bezier_points
           idx == InsertIndex(pts, p[1])
           pts1 == SpliceIn(pts, idx, p)
       IN IF InsertSkipped(ctm)
          THEN /\ ev' = Ev("dblclickNoCtm", 0, FALSE)
               /\ UNCHANGED <<bezier_points, bezier_handles, bezier_knot_modes,
                              mkHandles, _debounceTimer>>
          ELSE IF InsertIndexThrows(pts, p[1])
          THEN /\ ev' = Ev("dblclick", 0, TRUE)
               /\ UNCHANGED <<bezier_points, bezier_handles, bezier_knot_modes,
                              mkHandles, _debounceTimer>>
          ELSE IF Len(bezier_handles) > 0 /\ computeCatmullRomHandlesThrows(pts1)
          THEN /\ bezier_points' = pts1
               /\ ev' = Ev("dblclick", 0, TRUE)
               /\ UNCHANGED <<bezier_handles, bezier_knot_modes, mkHandles, _debounceTimer>>
          ELSE /\ bezier_points' = pts1
               /\ bezier_handles' = InsertHandles(bezier_handles, pts1)
               /\ mkHandles' = IF Len(bezier_handles) > 0
                               THEN Replaced(mkHandles, bezier_handles)
                               ELSE mkHandles
               /\ bezier_knot_modes' = InsertModes(bezier_knot_modes, idx)
               /\ requestRender
               /\ ev' = Ev("dblclick", 1, FALSE)
    /\ UNCHANGED <<shape, hasSvg, preview, previewD, mkN, mkTips, mkPoints, mkModes,
                   dragVars, inflight, wsStatus, requests, stale, wsReady, sockVars, converting>>
    /\ UNCHANGED viewVars

\* ── Knot markers: remove, toggle ──────────────────────────────────────
\* "Right-click to remove (min 2 points)"
CanRemove(points) == Len(points) > 2

\* the contextmenu listener of the marker drawn for knot idx
Remove(idx) ==
    /\ idx \in 0..(mkN - 1)
    /\ LET points == Deref(mkPoints, bezier_points)
           handles == Deref(mkHandles, bezier_handles)
           modes == Deref(mkModes, bezier_knot_modes)
       IN IF CanRemove(points)
          THEN /\ bezier_points' = IF mkPoints.alias THEN SpliceOut(points, idx)
                                   ELSE bezier_points
               /\ mkPoints' = IF mkPoints.alias THEN mkPoints
                              ELSE Held(SpliceOut(points, idx))
               /\ bezier_handles' = IF mkHandles.alias THEN SpliceOut(handles, idx)
                                    ELSE bezier_handles
               /\ mkHandles' = IF mkHandles.alias THEN mkHandles
                               ELSE Held(SpliceOut(handles, idx))
               /\ bezier_knot_modes' = IF mkModes.alias THEN SpliceOut(modes, idx)
                                       ELSE bezier_knot_modes
               /\ mkModes' = IF mkModes.alias THEN mkModes
                             ELSE Held(SpliceOut(modes, idx))
               /\ requestRender
               /\ ev' = Ev("contextmenu", 1, FALSE)
          ELSE /\ ev' = Ev("contextmenu", 0, FALSE)
               /\ UNCHANGED <<bezier_points, bezier_handles, bezier_knot_modes,
                              mkPoints, mkHandles, mkModes, _debounceTimer>>
    /\ UNCHANGED <<shape, hasSvg, preview, previewD, mkN, mkTips, dragVars, inflight, wsStatus, requests, stale, wsReady, sockVars, converting,
                   edits>>
    /\ UNCHANGED viewVars

ToggledMode(mode) == IF mode = "corner" THEN "smooth" ELSE "corner"

\* the click listener of the marker drawn for knot idx, with Alt held
AltClick(idx) ==
    /\ idx \in 0..(mkN - 1)
    /\ LET modes == Deref(mkModes, bezier_knot_modes)
           modes1 == SetAt(modes, idx, ToggledMode(ModeAt(modes, idx)), NoMode)
       IN /\ bezier_knot_modes' = IF mkModes.alias THEN modes1 ELSE bezier_knot_modes
          /\ mkModes' = IF mkModes.alias THEN mkModes ELSE Held(modes1)
    /\ requestRender
    /\ ev' = Ev("altclick", 1, FALSE)
    /\ UNCHANGED <<shape, bezier_points, bezier_handles, hasSvg, preview, previewD, mkN, mkTips,
                   mkPoints, mkHandles, dragVars, inflight, wsStatus, requests, stale, wsReady, sockVars, converting, edits>>
    /\ UNCHANGED viewVars


\* ── DragController ────────────────────────────────────────────────────
Drag(kind, idx, side) == [kind |-> kind, idx |-> idx, side |-> side, attached |-> TRUE]

\* _handleKnotDragStart: primary button without Alt on the marker of knot idx
KnotMouseDown(idx) ==
    /\ idx \in 0..(mkN - 1)
    /\ Len(drags) < MaxDrags
    /\ _draggingHandle' = TRUE
    /\ drags' = Append(drags, Drag("knot", idx, "none"))
    /\ ev' = Ev("knotdown", 0, FALSE)
    /\ UNCHANGED <<modelVars, markerVars, netVars, edits>>
    /\ UNCHANGED viewVars

\* _handleTipDragStart: primary button on a handle tip
TipMouseDown(tip) ==
    /\ tip \in mkTips
    /\ Len(drags) < MaxDrags
    /\ _draggingHandle' = TRUE
    /\ drags' = Append(drags, Drag("tip", tip[1], tip[2]))
    /\ ev' = Ev("tipdown", 0, FALSE)
    /\ UNCHANGED <<modelVars, markerVars, netVars, edits>>
    /\ UNCHANGED viewVars

\* what the listeners of one pointer-move work on
MoveState ==
    [pts |-> bezier_points, h |-> bezier_handles, pv |-> preview, d |-> previewD, n |-> mkN,
     tips |-> mkTips, rp |-> mkPoints, rh |-> mkHandles, rm |-> mkModes, threw |-> FALSE]

\* _updateDragPreview(svg) on the drag's own <svg>: the preview path is created,
\* then _buildBezierPathD runs, then the overlay is rebuilt from the model's arrays
DragPreview(st, d) ==
    IF ~d.attached
    THEN [st EXCEPT !.threw = st.threw \/ PathThrows(st.pts)]
    ELSE IF PathThrows(st.pts)
    THEN [st EXCEPT !.pv = TRUE, !.threw = TRUE]
    ELSE IF GroupThrows(st.pts)
    THEN [st EXCEPT !.pv = TRUE, !.d = _buildBezierPathD(st.pts, st.h), !.threw = TRUE]
    ELSE [st EXCEPT !.pv = TRUE, !.d = _buildBezierPathD(st.pts, st.h),
                    !.n = Len(st.pts), !.tips = TipsOf(st.pts, st.h),
                    !.rp = Alias, !.rh = Alias, !.rm = Alias]

\* onMove of a knot drag: state.membrane.bezier_points[idx] = [x, y]
KnotMoved(pts, idx, p) == SetAt(pts, idx, p, Null)

KnotMove(st, d, p) == DragPreview([st EXCEPT !.pts = KnotMoved(st.pts, d.idx, p)], d)

\* variant: the opposite side is left as it is
MirroredKept(new, other) == other

\* smooth mode: the opposite side keeps its length and points against the new offset
Mirrored(new, other) ==
    IF other.mag = <<0, 0>> THEN Vec(<<0, 0>>) ELSE [dir |-> Neg(new).dir, mag |-> other.mag]

\* variant: the opposite side is mirrored whatever the mode
TipMovedMirroring(entry, side, mode, knot, p) ==
    LET d == <<p[1] - knot[1], p[2] - knot[2]>>
        new == Vec(<<6 * d[1], 6 * d[2]>>)
        mirror == LongerThanEps(d)
    IN IF side = "in"
       THEN <<new, IF mirror THEN Mirrored(new, entry[2]) ELSE entry[2]>>
       ELSE <<IF mirror THEN Mirrored(new, entry[1]) ELSE entry[1], new>>

\* onMove of a handle drag on a knot and a handle entry that exist
TipMoved(entry, side, mode, knot, p) ==
    LET d == <<p[1] - knot[1], p[2] - knot[2]>>
        new == Vec(<<6 * d[1], 6 * d[2]>>)
        mirror == mode = "smooth" /\ LongerThanEps(d)
    IN IF side = "in"
       THEN <<new, IF mirror THEN Mirrored(new, entry[2]) ELSE entry[2]>>
       ELSE <<IF mirror THEN Mirrored(new, entry[1]) ELSE entry[1], new>>

TipMove(st, d, p) ==
    IF At(st.pts, d.idx) = Null \/ At(st.h, d.idx) = Null
    THEN [st EXCEPT !.threw = TRUE]
    ELSE DragPreview(
           [st EXCEPT !.h = SetAt(st.h, d.idx,
                                  TipMoved(At(st.h, d.idx), d.side,
                                           ModeAt(bezier_knot_modes, d.idx),
                                           At(st.pts, d.idx), p), Null)], d)

RECURSIVE MoveAll(_, _, _)
MoveAll(st, ds, p) ==
    IF ds = <<>> THEN st
    ELSE MoveAll(IF Head(ds).kind = "knot" THEN KnotMove(st, Head(ds), p)
                 ELSE TipMove(st, Head(ds), p),
                 Tail(ds), p)

\* variant: the pan offset follows the pointer from the origin
PannedAbsolute(panning, at, start, c) == IF panning THEN c ELSE at

\* the pan listener of window mousemove: panX = e.clientX - startPanX
Panned(panning, at, start, c) ==
    IF panning THEN <<c[1] - start[1], c[2] - start[2]>> ELSE at

\* variant: a move is applied whether or not the surface has a transform
MovedAnyway(st, ds, p, ctm) == MoveAll(st, ds, p)

\* svg.getScreenCTM() is null: every onMove returns before it writes anything
Moved(st, ds, p, ctm) == IF ctm THEN MoveAll(st, ds, p) ELSE st

\* a mousemove on window with the pointer at p, the surface having a screen
\* transform or not (ctm): the pan listener and every registered onMove run
MouseMove(p, ctm) ==
    /\ (drags # <<>> /\ ctm) => edits < MaxEdits
    /\ edits' = IF drags # <<>> /\ ctm THEN edits + 1 ELSE edits
    /\ LET st == Moved(MoveState, drags, p, ctm)
       IN /\ bezier_points' = st.pts
          /\ bezier_handles' = st.h
          /\ preview' = st.pv
          /\ previewD' = st.d
          /\ mkN' = st.n
          /\ mkTips' = st.tips
          /\ mkPoints' = st.rp
          /\ mkHandles' = st.rh
          /\ mkModes' = st.rm
          /\ \E c \in ClientPts :
                /\ pan' = Panned(isPanning, pan, startPan, c)
                /\ ev' = Ev(IF ctm THEN "mousemove" ELSE "mousemoveNoCtm", 0, st.threw)
                         @@ [at |-> p, client |-> IF isPanning THEN c ELSE Null]
    /\ UNCHANGED <<shape, bezier_knot_modes, hasSvg, dragVars, netVars,
                   zoomLevel, isPanning, startPan>>

\* what onUp leaves of the drag state
\* variant: onUp leaves its listeners registered
DragsAfterUpKept(ds) == ds

DragsAfterUp(ds) == <<>>
FlagAfterUp(ds, flag) == IF ds # <<>> THEN FALSE ELSE flag

\* a mouseup on window: the pan listener and every registered onUp run
MouseUp ==
    /\ _draggingHandle' = FlagAfterUp(drags, _draggingHandle)
    /\ drags' = DragsAfterUp(drags)
    /\ preview' = IF \E k \in 1..Len(drags) : drags[k].attached THEN FALSE ELSE preview
    /\ previewD' = IF \E k \in 1..Len(drags) : drags[k].attached THEN <<>> ELSE previewD
    /\ _debounceTimer' = IF drags # <<>> THEN TRUE ELSE _debounceTimer
    /\ ev' = Ev("mouseup", Len(drags), FALSE)
    /\ UNCHANGED <<modelVars, hasSvg, mkN, mkTips, mkPoints, mkHandles, mkModes,
                   inflight, wsStatus, requests, stale, wsReady, sockVars, converting, edits>>
    /\ isPanning' = FALSE
    /\ UNCHANGED <<zoomLevel, pan, startPan>>


\* ── Side panel (shown while the shape is bezier) ──────────────────────
\* '+ Add point': midpoint of the last two knots, 80 px to the right
AddedPoint(pts) ==
    LET last == At(pts, Len(pts) - 1)
        prev == At(pts, Len(pts) - 2)
    IN <<(last[1] + prev[1]) \div 2 + Px(80), (last[2] + prev[2]) \div 2>>

AddPointThrows(pts) == At(pts, Len(pts) - 1) = Null \/ At(pts, Len(pts) - 2) = Null

AddPoint ==
    /\ shape = "bezier"
    /\ edits < MaxEdits
    /\ edits' = edits + 1
    /\ IF AddPointThrows(bezier_points)
       THEN /\ ev' = Ev("addPoint", 0, TRUE)
            /\ UNCHANGED <<bezier_points, bezier_handles, bezier_knot_modes,
                           mkHandles, mkModes, _debounceTimer>>
       ELSE LET pts1 == Append(bezier_points, AddedPoint(bezier_points))
            IN /\ bezier_points' = pts1
               /\ IF computeCatmullRomHandlesThrows(pts1)
                  THEN /\ ev' = Ev("addPoint", 0, TRUE)
                       /\ UNCHANGED <<bezier_handles, bezier_knot_modes,
                                      mkHandles, mkModes, _debounceTimer>>
                  ELSE /\ bezier_handles' = computeCatmullRomHandles(pts1)
                       /\ bezier_knot_modes' = AllSmooth(pts1)
                       /\ mkHandles' = Replaced(mkHandles, bezier_handles)
                       /\ mkModes' = Replaced(mkModes, bezier_knot_modes)
                       /\ requestRender
                       /\ ev' = Ev("addPoint", 1, FALSE)
    /\ UNCHANGED <<shape, hasSvg, preview, previewD, mkN, mkTips, mkPoints,
                   dragVars, inflight, wsStatus, requests, stale, wsReady, sockVars, converting>>
    /\ UNCHANGED viewVars

\* 'Reset points': three new arrays
ResetPoints ==
    /\ shape = "bezier"
    /\ bezier_points' = DefaultPoints
    /\ bezier_handles' = <<>>
    /\ bezier_knot_modes' = <<>>
    /\ mkPoints' = Replaced(mkPoints, bezier_points)
    /\ mkHandles' = Replaced(mkHandles, bezier_handles)
    /\ mkModes' = Replaced(mkModes, bezier_knot_modes)
    /\ requestRender
    /\ ev' = Ev("resetPoints", 1, FALSE)
    /\ UNCHANGED <<shape, hasSvg, preview, previewD, mkN, mkTips, dragVars, inflight, wsStatus, requests, stale, wsReady, sockVars, converting,
                   edits>>
    /\ UNCHANGED viewVars

\* 'Reset handles': new handle and mode arrays
ResetHandles ==
    /\ shape = "bezier"
    /\ IF computeCatmullRomHandlesThrows(bezier_points)
       THEN /\ ev' = Ev("resetHandles", 0, TRUE)
            /\ UNCHANGED <<bezier_handles, bezier_knot_modes, mkHandles, mkModes,
                           _debounceTimer>>
       ELSE /\ bezier_handles' = computeCatmullRomHandles(bezier_points)
            /\ bezier_knot_modes' = AllSmooth(bezier_points)
            /\ mkHandles' = Replaced(mkHandles, bezier_handles)
            /\ mkModes' = Replaced(mkModes, bezier_knot_modes)
            /\ requestRender
            /\ ev' = Ev("resetHandles", 1, FALSE)
    /\ UNCHANGED <<shape, bezier_points, hasSvg, preview, previewD, mkN, mkTips, mkPoints,
                   dragVars, inflight, wsStatus, requests, stale, wsReady, sockVars, converting, edits>>
    /\ UNCHANGED viewVars

\* ── Zoom and pan ──────────────────────────────────────────────────────
\* a wheel event on the container: deltaY > 0 ? 0.9 : 1.1
\* (ev keeps the factor, the number of wheel events with this factor in a
\* row, and the zoom factor at the first of them)
Wheel(d) ==
    /\ edits' = edits + 1
    /\ zoomLevel' = Zoomed(zoomLevel, d)
    /\ ev' = Ev("wheel", 0, FALSE) @@
             (IF ev.name = "wheel" /\ ev.d = d
              THEN [d |-> d, run |-> ev.run + 1, from |-> ev.from]
              ELSE [d |-> d, run |-> 1, from |-> zoomLevel])
    /\ UNCHANGED <<modelVars, markerVars, dragVars, netVars, pan, isPanning, startPan>>

\* a click on the reset button: resetZoom
ResetZoom ==
    /\ zoomLevel' = ZoomUnit
    /\ pan' = <<0, 0>>
    /\ ev' = Ev("resetZoom", 0, FALSE)
    /\ UNCHANGED <<modelVars, markerVars, dragVars, netVars, isPanning, startPan, edits>>

\* variant: the mousedown listener of the container does not look at the flag
PanStartsAnyway(dragging) == TRUE

\* the mousedown listener of the container returns at once while a handle is dragged
PanStarts(dragging) == ~dragging

\* a mousedown on the container with the middle button, or the primary button and Alt
PanMouseDown(c) ==
    /\ PanStarts(_draggingHandle) => edits < MaxEdits
    /\ IF PanStarts(_draggingHandle)
       THEN /\ isPanning' = TRUE
            /\ startPan' = <<c[1] - pan[1], c[2] - pan[2]>>
            /\ edits' = edits + 1
       ELSE UNCHANGED <<isPanning, startPan, edits>>
    /\ ev' = Ev("pandown", 0, FALSE) @@ [client |-> c]
    /\ UNCHANGED <<modelVars, markerVars, dragVars, netVars, zoomLevel, pan>>

\* _handleKnotDragStart calls e.stopPropagation() only past its early return
\* on a button other than the primary one or on Alt
KnotDownStops(alt) == ~alt

\* a mousedown with the primary button and Alt on the marker of knot idx: the
\* marker's listener returns at once, and the event goes on to the listener
\* of the container the marker is drawn in
AltMouseDown(idx, c) ==
    /\ idx \in 0..(mkN - 1)
    /\ LET pans == ~KnotDownStops(TRUE) /\ PanStarts(_draggingHandle)
       IN /\ pans => edits < MaxEdits
          /\ IF pans
             THEN /\ isPanning' = TRUE
                  /\ startPan' = <<c[1] - pan[1], c[2] - pan[2]>>
                  /\ edits' = edits + 1
             ELSE UNCHANGED <<isPanning, startPan, edits>>
    /\ ev' = Ev("altdown", 0, FALSE) @@ [client |-> c]
    /\ UNCHANGED <<modelVars, markerVars, dragVars, netVars, zoomLevel, pan>>

\* ── Shape nav ─────────────────────────────────────────────────────────
\* a click on a nav button that needs no conversion
ClickShape(value) ==
    /\ value = "bezier" => shape = "bezier"
    /\ shape' = value
    /\ requestRender
    /\ ev' = Ev("shape", 1, FALSE)
    /\ UNCHANGED <<bezier_points, bezier_handles, bezier_knot_modes, markerVars,
                   dragVars, inflight, wsStatus, requests, stale, wsReady, sockVars, converting, edits>>
    /\ UNCHANGED viewVars

\* a click on 'Bezier' while another shape is shown: the handler awaits the fetch
ClickBezier ==
    /\ shape # "bezier"
    /\ converting = 0
    /\ converting' = converting + 1
    /\ ev' = Ev("convert", 0, FALSE)
    /\ UNCHANGED <<modelVars, markerVars, dragVars, _debounceTimer, inflight, wsStatus, requests, stale, wsReady, sockVars, edits>>
    /\ UNCHANGED viewVars

\* data.points && data.points.length >= 2
Converts(points) == Len(points) >= 2

\* the handler resumes with the sampled points, or with none when the fetch failed
ConvertDone(points) ==
    /\ converting > 0
    /\ converting' = converting - 1
    /\ IF Converts(points)
       THEN /\ bezier_points' = points
            /\ bezier_handles' = computeCatmullRomHandles(points)
            /\ bezier_knot_modes' = AllSmooth(points)
            /\ mkPoints' = Replaced(mkPoints, bezier_points)
            /\ mkHandles' = Replaced(mkHandles, bezier_handles)
            /\ mkModes' = Replaced(mkModes, bezier_knot_modes)
       ELSE UNCHANGED <<bezier_points, bezier_handles, bezier_knot_modes,
                        mkPoints, mkHandles, mkModes>>
    /\ shape' = "bezier"
    /\ requestRender
    /\ ev' = Ev("converted", 1, FALSE)
    /\ UNCHANGED <<hasSvg, preview, previewD, mkN, mkTips, dragVars, inflight, wsStatus, requests, stale, wsReady, sockVars, edits>>
    /\ UNCHANGED viewVars

\* ── Specifications ────────────────────────────────────────────────────
\* the debounce timer and the render service
NetNext ==
    \/ TimerFire
    \/ RenderOk
    \/ RenderFail

\* the shape nav
NavNext ==
    \/ \E value \in {"linear", "bezier"} : ClickShape(value)
    \/ ClickBezier
    \/ \E points \in {SampledPoints, <<>>} : ConvertDone(points)

\* entering the curve editor: the conversion to a curve succeeds
OpenNext ==
    \/ ClickBezier
    \/ ConvertDone(SampledPoints)

\* the double-click and the panel buttons
EditNext ==
    \/ \E p \in InsertPts : Insert(p, TRUE)
    \/ AddPoint
    \/ ResetPoints
    \/ ResetHandles

\* the click gestures on knot markers
MarkerNext ==
    \/ \E idx \in KnotChoices(mkN) : Remove(idx)
    \/ \E idx \in ToggleChoices(mkN) : AltClick(idx)

\* the drag gestures
DragNext ==
    \/ \E idx \in KnotChoices(mkN) : KnotMouseDown(idx)
    \/ \E tip \in TipChoices(mkN, mkTips) : TipMouseDown(tip)
    \/ \E p \in PointerPts : MouseMove(p, TRUE)
    \/ MouseUp

\* the drag gestures of a single pointer: its button goes down only when it is up
PointerNext ==
    \/ \E idx \in KnotChoices(mkN) : drags = <<>> /\ KnotMouseDown(idx)
    \/ \E tip \in TipChoices(mkN, mkTips) : drags = <<>> /\ TipMouseDown(tip)
    \/ \E p \in PointerPts : MouseMove(p, TRUE)
    \/ MouseUp

\* the gestures on one knot's handles: toggling its mode and dragging its tips
TipNext ==
    \/ \E idx \in TipKnotChoices(mkN) : AltClick(idx)
    \/ \E tip \in TipKnotTips(mkTips) : drags = <<>> /\ TipMouseDown(tip)
    \/ \E p \in TipPts : MouseMove(p, TRUE)
    \/ MouseUp

\* the mode-toggle gesture on one knot marker: Alt held, the button goes
\* down, the pointer may move, the button goes up, the click follows
ToggleNext ==
    \/ \E idx \in TipKnotChoices(mkN), c \in ClientPts : AltMouseDown(idx, c)
    \/ \E p \in PointerPts : MouseMove(p, TRUE)
    \/ MouseUp
    \/ \E idx \in TipKnotChoices(mkN) : AltClick(idx)

\* the pointer events that find the display surface without a screen transform
SurfaceNext ==
    \/ \E p \in PointerPts : MouseMove(p, FALSE)
    \/ \E p \in InsertPts : Insert(p, FALSE)

\* the life of the socket
WsNext ==
    \/ WsOpen
    \/ WsError
    \/ WsClose
    \/ Reconnect

\* the wheel and the pan gesture
ViewNext ==
    \/ \E d \in {9, 11} : edits < MaxEdits /\ Wheel(d)
    \/ \E c \in ClientPts : PanMouseDown(c)
    \/ ResetZoom

\* the wheel and the reset button alone, for as many wheel events as it
\* takes to come from 1.0 to either end of the range and stay there
ZoomNext ==
    \/ \E d \in {9, 11} : edits < MaxWheels /\ Wheel(d)
    \/ ResetZoom

Next ==
    \/ NetNext \/ WsNext \/ NavNext \/ EditNext \/ MarkerNext \/ DragNext \/ SurfaceNext
    \/ ViewNext \/ ToggleNext

\* every gesture, in any order
Spec == Init /\ [][Next]_vars

\* a curve-editing session without drags
SpecEdit == Init /\ [][NetNext \/ OpenNext \/ EditNext \/ MarkerNext]_vars

\* a curve-editing session of removals and drags, pointer-downs in any order
SpecDrag ==
    Init /\ [][NetNext \/ OpenNext \/ (\E idx \in KnotChoices(mkN) : Remove(idx)) \/ DragNext]_vars

\* a curve-editing session of removals and drags with a single pointer
SpecPointer ==
    Init /\ [][NetNext \/ OpenNext \/ (\E idx \in {0} \cap KnotChoices(mkN) : Remove(idx)) \/ PointerNext]_vars

\* a curve-editing session of handle drags and mode toggles on one knot
SpecTip ==
    Init /\ [][NetNext \/ OpenNext \/ TipNext]_vars

\* a curve-editing session of mode toggles
SpecToggle == Init /\ [][NetNext \/ OpenNext \/ ToggleNext]_vars

\* a curve-editing session of drags on a surface that at times has no transform
SpecSurface == Init /\ [][NetNext \/ OpenNext \/ PointerNext \/ SurfaceNext]_vars

\* a session of wheel events and clicks on the reset button
SpecZoom == Init /\ [][ZoomNext]_vars

\* a curve-editing session of drags, zooming and panning
SpecView == Init /\ [][NetNext \/ OpenNext \/ PointerNext \/ ViewNext]_vars

\* render requests over both transports, the curve reset again and again
SpecNet == Init /\ [][NetNext \/ WsNext \/ OpenNext \/ ResetPoints]_vars

\* the same, where a pending timer does fire after its 100 ms and no request
\* stays in flight for ever: one that gets no reply fails in the end
SpecNetLive ==
    /\ SpecNet
    /\ WF_vars(TimerFire)
    /\ WF_vars(RenderFail)

\* the same, where a reconnect timer does fire after its 2 s, the close of a
\* socket follows its error, and connection attempts succeed in the end
SpecWsLive ==
    /\ SpecNet
    /\ WF_vars(Reconnect)
    /\ WF_vars(ws = "failed" /\ WsClose)
    /\ SF_vars(WsOpen)

\* ── Insertion on its own ──────────────────────────────────────────────
\* knots in ascending x, two of them at the same x
KnotPool == <<Pt(200, 300), Pt(450, 250), Pt(450, 300), Pt(750, 350), Pt(1000, 300)>>

\* the knots of the pool at the positions in S, in the pool's order
PoolSeq(S) ==
    [k \in 1..Cardinality(S) |->
        KnotPool[CHOOSE x \in S : Cardinality({y \in S : y < x}) = k - 1]]

SortedInputs == {PoolSeq(S) : S \in {T \in SUBSET (1..Len(KnotPool)) : Cardinality(T) >= 2}}

\* the editor open on a sorted knot sequence, its handles still empty or already synthesized
InitInsert ==
    /\ shape = "bezier"
    /\ bezier_points \in SortedInputs
    /\ \/ bezier_handles = <<>> /\ bezier_knot_modes = <<>>
       \/ /\ bezier_handles = computeCatmullRomHandles(bezier_points)
          /\ bezier_knot_modes = AllSmooth(bezier_points)
    /\ hasSvg = TRUE
    /\ preview = FALSE
    /\ previewD = <<>>
    /\ mkN = 0
    /\ mkTips = {}
    /\ mkPoints = NoRef
    /\ mkHandles = NoRef
    /\ mkModes = NoRef
    /\ _draggingHandle = FALSE
    /\ drags = <<>>
    /\ _debounceTimer = TRUE
    /\ inflight = 0
    /\ requests = <<>>
    /\ wsReady = FALSE
    /\ wsStatus = "unset"
    /\ ws = "connecting"
    /\ reconnects = 0
    /\ strays = 0
    /\ stale = FALSE
    /\ converting = 0
    /\ zoomLevel = ZoomUnit
    /\ pan = <<0, 0>>
    /\ isPanning = FALSE
    /\ startPan = <<0, 0>>
    /\ edits = 0
    /\ ev = Ev("converted", 1, FALSE)

SpecInsert == InitInsert /\ [][\E p \in InsertPts : Insert(p, TRUE)]_vars

\* ── The synthesizer and the path builder on their own ─────────────────
\* knots in any order: three on one horizontal line, one off it
CurvePool == {Pt(0, 0), Pt(100, 0), Pt(200, 0), Pt(450, 250)}

RECURSIVE SeqsUpTo(_, _)
SeqsUpTo(S, n) ==
    IF n = 0 THEN {<<>>}
    ELSE LET shorter == SeqsUpTo(S, n - 1)
         IN shorter \cup {Append(s, x) : s \in shorter, x \in S}

KnotInputs == SeqsUpTo(CurvePool, MaxKnots)

\* the editor open on the curve pts with the handles h and the modes m, its
\* markers built from them, nothing pending but the render request
EditorOn(pts, h, m) ==
    /\ shape = "bezier"
    /\ bezier_points = pts
    /\ bezier_handles = h
    /\ bezier_knot_modes = m
    /\ hasSvg = TRUE
    /\ preview = FALSE
    /\ previewD = <<>>
    /\ mkN = Len(pts)
    /\ mkTips = TipsOf(pts, h)
    /\ mkPoints = Alias
    /\ mkHandles = Alias
    /\ mkModes = Alias
    /\ _draggingHandle = FALSE
    /\ drags = <<>>
    /\ _debounceTimer = TRUE
    /\ inflight = 0
    /\ requests = <<>>
    /\ wsReady = FALSE
    /\ wsStatus = "connected"
    /\ ws = "connecting"
    /\ reconnects = 0
    /\ strays = 0
    /\ stale = FALSE
    /\ converting = 0
    /\ zoomLevel = ZoomUnit
    /\ pan = <<0, 0>>
    /\ isPanning = FALSE
    /\ startPan = <<0, 0>>
    /\ edits = 0
    /\ ev = Ev("converted", 1, FALSE)

\* the editor open on any knot sequence, the handles not yet synthesized
InitSynth == \E pts \in KnotInputs : EditorOn(pts, <<>>, <<>>)

\* 'Reset handles' on any knot sequence
SpecSynth == InitSynth /\ [][ResetHandles]_vars

\* ── The authoritative renderer's curve ────────────────────────────────
\* The renderer runs on the server; its curve is the normative formula: a
\* move-to the first knot, then per consecutive knot pair one cubic with
\* cp1 = p_i + (p_ip1 - p_im1)/6 and cp2 = p_ip1 - (p_ip2 - p_i)/6, the
\* neighbours reflected at the ends, each overridden by the explicit handle on
\* its knot; a single line-to for exactly 2 knots without handles.
Reflected(p, q) == <<2 * p[1] - q[1], 2 * p[2] - q[2]>>

Sixth(a, b) == Vec(<<a[1] - b[1], a[2] - b[2]>>)

ExplicitSide(handles, k, side) ==
    IF k > Len(handles) THEN Null
    ELSE IF handles[k] = Null THEN Null
    ELSE IF side > Len(handles[k]) THEN Null
    ELSE handles[k][side]

RECURSIVE CurveFrom(_, _, _)
CurveFrom(knots, handles, k) ==
    IF k >= Len(knots) THEN <<>>
    ELSE LET before == IF k = 1 THEN Reflected(knots[1], knots[2]) ELSE knots[k - 1]
             after == IF k + 1 = Len(knots)
                      THEN Reflected(knots[k + 1], knots[k])
                      ELSE knots[k + 2]
             outH == ExplicitSide(handles, k, 2)
             inH == ExplicitSide(handles, k + 1, 1)
             first == [at |-> knots[k],
                       off |-> IF outH = Null THEN Sixth(knots[k + 1], before) ELSE outH]
             second == [at |-> knots[k + 1],
                        off |-> IF inH = Null THEN Sixth(knots[k], after) ELSE inH]
         IN <<[op |-> "C", cp1 |-> first, cp2 |-> second, to |-> knots[k + 1]]>>
              \o CurveFrom(knots, handles, k + 1)

build_spline_curve(knots, handles) ==
    IF Len(knots) < 2 THEN <<>>
    ELSE IF Len(knots) = 2 /\ handles = <<>>
    THEN <<[op |-> "M", to |-> knots[1]], [op |-> "L", to |-> knots[2]]>>
    ELSE <<[op |-> "M", to |-> knots[1]]>> \o CurveFrom(knots, handles, 1)

\* a handle pair set by hand, unlike any synthesized one
ExplicitPair == <<Vec(<<-7, 3>>), Vec(<<5, 11>>)>>

\* handle sequences for n knots: none, one pair per knot, one pair short, and
\* one pair per knot but for one entry that is missing, lacks its inbound
\* or its outbound side, or holds one side only
HandleInputs(n) ==
    LET full == [k \in 1..n |-> ExplicitPair]
        odd == {Null, <<Null, ExplicitPair[2]>>, <<ExplicitPair[1], Null>>, <<ExplicitPair[1]>>}
    IN {<<>>, full, [k \in 1..(n - 1) |-> ExplicitPair]}
       \cup {[full EXCEPT ![j] = e] : j \in 1..n, e \in odd}

\* the editor open on any knot sequence that has a marker to drag, with any
\* of these handle sequences
InitPath ==
    \E pts \in KnotInputs \ {<<>>} : \E h \in HandleInputs(Len(pts)) :
        EditorOn(pts, h, AllSmooth(pts))

\* knot drags, each move redrawing the preview path
PathNext ==
    \/ \E idx \in KnotChoices(mkN) : drags = <<>> /\ KnotMouseDown(idx)
    \/ \E p \in PointerPts : MouseMove(p, TRUE)
    \/ MouseUp

SpecPath == InitPath /\ [][PathNext]_vars


\* ── Properties ────────────────────────────────────────────────────────
NumKnots(pts) == Cardinality({k \in 1..Len(pts) : pts[k] # Null})

EqualLengths ==
    /\ Len(bezier_handles) = Len(bezier_points)
    /\ Len(bezier_knot_modes) = Len(bezier_points)

SortedByX(pts) ==
    /\ ~HasHole(pts)
    /\ \A k \in 1..(Len(pts) - 1) : pts[k][1] <= pts[k + 1][1]

\* the indices of the knots under an attached or detached knot drag
DraggedKnots == {drags[k].idx : k \in {j \in 1..Len(drags) : drags[j].kind = "knot"}}

\* C1: whenever the curve model is read while the shape is 'bezier' (the
\* overlay is built from a render response, a drag preview is evaluated, or
\* the state is serialized for a render request), the knot, handle and mode
\* sequences have the same length.
C1_EqualLengthsWhenRead ==
    (/\ shape = "bezier"
     /\ \/ ev.name \in {"send", "renderOk"}
        \/ ev.name = "mousemove" /\ drags # <<>>)
    => EqualLengths

\* C2: a secondary-click removal that takes effect (the model holds more
\* than 2 knots) removes the entry at one and the same index from the knot,
\* handle and mode sequences of the current model in that one step, so the
\* three lengths each drop by exactly one.
C2_RemoveFromAllThree ==
    [][(ev'.name = "contextmenu" /\ Len(bezier_points) > 2)
       => \E idx \in 0..(Len(bezier_points) - 1) :
            /\ bezier_points' = SpliceOut(bezier_points, idx)
            /\ bezier_handles' = SpliceOut(bezier_handles, idx)
            /\ bezier_knot_modes' = SpliceOut(bezier_knot_modes, idx)
            /\ Len(bezier_points') = Len(bezier_points) - 1
            /\ Len(bezier_handles') = Len(bezier_handles) - 1
            /\ Len(bezier_knot_modes') = Len(bezier_knot_modes) - 1]_vars

\* C3: in every reachable state the knot sequence holds at least 2 knots.
C3_AtLeastTwoKnots == NumKnots(bezier_points) >= 2

\* C4: a secondary click on a knot marker while the model holds exactly 2
\* knots changes none of the three sequences, requests no render and raises
\* no error.
C4_RemoveAtTwoIsNoOp ==
    [][(ev'.name = "contextmenu" /\ NumKnots(bezier_points) = 2)
       => /\ UNCHANGED modelVars
          /\ ev'.reqs = 0
          /\ ~ev'.threw]_vars

\* C5: right after a double-click insert into a model of n knots the handle
\* sequence is the synthesizer's output for the n+1 sorted knots and the mode
\* sequence is the previous one with 'smooth' at the insertion rank, both of
\* length n+1, also when the handle or mode sequence was empty before.
C5_InsertResynthesizes ==
    [][ev'.name = "dblclick"
       => /\ ~HasHole(bezier_points')
          /\ Len(bezier_points') = Len(bezier_points) + 1
          /\ bezier_handles' = computeCatmullRomHandles(bezier_points')
          /\ Len(bezier_knot_modes') = Len(bezier_points')
          /\ \E idx \in 0..Len(bezier_points) :
               /\ SpliceOut(bezier_points', idx) = bezier_points
               /\ ModeAt(bezier_knot_modes', idx) = "smooth"
               /\ SpliceOut(bezier_knot_modes', idx) = bezier_knot_modes]_vars

\* C6: a double-click insert of p into a knot sequence sorted by x yields a
\* sequence sorted by x that holds every previous knot in its previous order
\* plus p, and p sits at the first index whose previous knot had x strictly
\* greater than p.x: after every knot of equal x, at the end when there is none.
C6_InsertKeepsOrder ==
    [][(ev'.name = "dblclick" /\ SortedByX(bezier_points))
       => /\ SortedByX(bezier_points')
          /\ \E p \in InsertPts : \E idx \in 0..Len(bezier_points) :
               /\ At(bezier_points', idx) = p
               /\ SpliceOut(bezier_points', idx) = bezier_points
               /\ \A i \in 0..(Len(bezier_points) - 1) :
                    (i < idx) <=> (At(bezier_points, i)[1] <= p[1])]_vars

\* an insert has put a knot right after a knot of the same x
C6_InsertedAfterEqual ==
    /\ ev.name = "dblclick"
    /\ \E k \in 2..Len(bezier_points) :
         /\ bezier_points[k] = Pt(450, 280)
         /\ bezier_points[k - 1][1] = Px(450)

\* C7: a pointer-move of a knot drag on index i changes only knot i: the
\* number of knots, every other knot, the handles and the modes are as before.
C7_KnotMoveChangesOnlyItsKnot ==
    [][(/\ ev'.name = "mousemove"
        /\ drags # <<>>
        /\ \A k \in 1..Len(drags) : drags[k].kind = "knot")
       => /\ Len(bezier_points') = Len(bezier_points)
          /\ \A i \in 0..(Len(bezier_points) - 1) :
               i \notin DraggedKnots => At(bezier_points', i) = At(bezier_points, i)
          /\ bezier_handles' = bezier_handles
          /\ bezier_knot_modes' = bezier_knot_modes]_vars

\* C8: the pointer-up that follows a pointer-down ends the drag: it clears
\* the drag flag, removes the move/up listeners and the preview path and
\* requests a render once for the drag; with no drag registered a
\* pointer-move leaves the curve model as it is.
C8_PointerUpEndsDrag ==
    [][/\ ev'.name = "mouseup"
          => /\ drags' = <<>>
             /\ ~preview'
             /\ ev'.reqs = Len(drags)
             /\ drags # <<>> => (~_draggingHandle' /\ _debounceTimer')
       /\ (ev'.name = "mousemove" /\ drags = <<>>) => UNCHANGED modelVars]_vars

\* a drag that moved the pointer has been ended by a pointer-up
C8_DragEnded ==
    /\ ev.name = "mouseup"
    /\ ev.reqs = 1
    /\ edits >= 1
    /\ drags = <<>>
    /\ ~_draggingHandle

\* C9: no render request is transmitted while a drag is active.
C9_NoSendWhileDragging == ev.name = "send" => drags = <<>>

\* C10: at most one drag is active at any time: in every reachable state at
\* most one pair of move/up listeners is registered.
C10_AtMostOneDrag == Len(drags) <= 1


\* C11: no knot or handle drag starts while a pan gesture is in progress: in
\* no reachable state are the panning flag and the drag flag both set.
C11_NoDragWhilePanning == ~(isPanning /\ _draggingHandle)

\* C12: while the drag flag is set, a pointer-down on the container (middle
\* button, or primary button with Alt) starts no pan gesture: the panning
\* flag and the pan start position stay as they are.
C12_NoPanWhileDragging ==
    [][(ev'.name = "pandown" /\ _draggingHandle)
       => /\ isPanning' = isPanning
          /\ startPan' = startPan
          /\ ~isPanning => ~isPanning']_vars

\* a pan pointer-down came while a drag was active and no pan going
C12_PanDownDuringDrag ==
    /\ ev.name = "pandown"
    /\ _draggingHandle
    /\ drags # <<>>
    /\ ~isPanning

C14_OneTransmissionPerBurst ==
    /\ [][/\ ev'.reqs > 0 => _debounceTimer'
          /\ inflight' > inflight => ev'.name = "send"
          /\ ev'.name = "send"
             => /\ _debounceTimer
                /\ ~_debounceTimer'
                /\ inflight' = inflight + 1
                /\ ev'.sent = <<shape', bezier_points', bezier_handles', bezier_knot_modes'>>]_vars
    /\ _debounceTimer ~> (ev.name = "send" /\ ~_debounceTimer)

\* the state sent is the one left by the last call of a burst: two resets
\* of the curve, the second before the timer of the first has fired
C14_SentAfterBurst ==
    /\ ev.name = "send"
    /\ shape = "bezier"
    /\ bezier_handles = <<>>
    /\ ev.sent[2] = DefaultPoints


\* C15: a reply to an older render request that arrives after the reply to
\* a newer one is discarded: the render on display is always the one for the
\* most recently transmitted request among those that have been answered.
C15_NewestReplyShown == ~stale

C17_MarkersHoldCurrentModel ==
    mkN > 0 => (mkPoints.alias /\ mkHandles.alias /\ mkModes.alias)


\* the one handle drag whose onMove a pointer-move runs, on a knot and a
\* handle entry that exist
TipDragOn(ds, pts, handles) ==
    /\ Len(ds) = 1
    /\ ds[1].kind = "tip"
    /\ At(pts, ds[1].idx) # Null
    /\ At(handles, ds[1].idx) # Null

OwnSide(entry, side) == IF side = "in" THEN entry[1] ELSE entry[2]
OppositeSide(entry, side) == IF side = "in" THEN entry[2] ELSE entry[1]

\* C18: on each pointer-move of a handle drag of side s on knot i, with the
\* offset o = pointer - knot[i]: handle(i)[s] becomes o; if the knot is smooth
\* and |o| > 0.01 the opposite side keeps its magnitude and points exactly
\* against o; if |o| <= 0.01 the opposite side is left unchanged.
C18_TipMoveSetsAndMirrors ==
    [][(ev'.name = "mousemove" /\ TipDragOn(drags, bezier_points, bezier_handles))
       => LET i == drags[1].idx
              s == drags[1].side
              knot == At(bezier_points, i)
              o == <<ev'.at[1] - knot[1], ev'.at[2] - knot[2]>>
              before == At(bezier_handles, i)
              after == At(bezier_handles', i)
              long == \/ Abs(o[1]) >= Scale \/ Abs(o[2]) >= Scale
                      \/ 10000 * (o[1] * o[1] + o[2] * o[2]) > Scale * Scale
              smooth == ModeAt(bezier_knot_modes, i) = "smooth"
          IN /\ OwnSide(after, s) = Vec(<<6 * o[1], 6 * o[2]>>)
             /\ (smooth /\ long)
                  => /\ OppositeSide(after, s).mag = OppositeSide(before, s).mag
                     /\ OppositeSide(before, s).mag # <<0, 0>>
                          => /\ OppositeSide(after, s).dir[1] = -OwnSide(after, s).dir[1]
                             /\ OppositeSide(after, s).dir[2] = -OwnSide(after, s).dir[2]
             /\ ~long => OppositeSide(after, s) = OppositeSide(before, s)]_vars

\* a handle of a smooth knot has just been dragged away from its knot, and the
\* opposite side, of another length, points against it
C18_MirroredAfterMove ==
    /\ ev.name = "mousemove"
    /\ TipDragOn(drags, bezier_points, bezier_handles)
    /\ ModeAt(bezier_knot_modes, drags[1].idx) = "smooth"
    /\ ev.at # At(bezier_points, drags[1].idx)
    /\ LET entry == At(bezier_handles, drags[1].idx)
       IN /\ entry[1].dir = Neg(entry[2]).dir
          /\ entry[1].mag # entry[2].mag
          /\ entry # At(computeCatmullRomHandles(bezier_points), drags[1].idx)

\* C19: on each pointer-move of a handle drag of side s on a knot i whose
\* mode is corner, only handle(i)[s] changes: the opposite side of knot i,
\* the handles of every other knot, all knots and all modes stay as they are.
C19_CornerMoveChangesOneSide ==
    [][(/\ ev'.name = "mousemove"
        /\ TipDragOn(drags, bezier_points, bezier_handles)
        /\ ModeAt(bezier_knot_modes, drags[1].idx) = "corner")
       => /\ bezier_points' = bezier_points
          /\ bezier_knot_modes' = bezier_knot_modes
          /\ Len(bezier_handles') = Len(bezier_handles)
          /\ \A k \in 0..(Len(bezier_handles) - 1) :
               k # drags[1].idx => At(bezier_handles', k) = At(bezier_handles, k)
          /\ OppositeSide(At(bezier_handles', drags[1].idx), drags[1].side)
               = OppositeSide(At(bezier_handles, drags[1].idx), drags[1].side)]_vars

\* a handle of a corner knot has just been dragged away from its knot, and the
\* opposite side still is the synthesized one, no longer pointing against it
C19_CornerSideMoved ==
    /\ ev.name = "mousemove"
    /\ TipDragOn(drags, bezier_points, bezier_handles)
    /\ ModeAt(bezier_knot_modes, drags[1].idx) = "corner"
    /\ ev.at # At(bezier_points, drags[1].idx)
    /\ LET entry == At(bezier_handles, drags[1].idx)
           was == At(computeCatmullRomHandles(bezier_points), drags[1].idx)
       IN /\ OwnSide(entry, drags[1].side) # OwnSide(was, drags[1].side)
          /\ OppositeSide(entry, drags[1].side) = OppositeSide(was, drags[1].side)
          /\ entry[1].dir # Neg(entry[2]).dir


\* C20: in every reachable state every knot whose mode is smooth and whose
\* two handles are both non-zero has its inbound and outbound handles
\* pointing in exactly opposite directions.
C20_SmoothKnotsMirrored ==
    \A k \in 0..(Len(bezier_handles) - 1) :
        LET entry == At(bezier_handles, k)
        IN (/\ ModeAt(bezier_knot_modes, k) = "smooth"
            /\ entry # Null
            /\ entry[1].mag # <<0, 0>>
            /\ entry[2].mag # <<0, 0>>)
           => entry[1].dir = Neg(entry[2]).dir

\* C21: an Alt+click on the marker of knot i flips mode[i] between smooth and
\* corner in the model, leaves every knot, every handle and every other mode
\* unchanged, does not set the drag flag, and issues exactly one render
\* request.
C21_ToggleFlipsOneMode ==
    [][ev'.name = "altclick"
       => /\ \E i \in 0..(Len(bezier_knot_modes) - 1) :
               /\ ModeAt(bezier_knot_modes, i) \in {"smooth", "corner"}
               /\ bezier_knot_modes'
                    = [bezier_knot_modes EXCEPT ![i + 1] = ToggledMode(@)]
          /\ UNCHANGED <<bezier_points, bezier_handles, _draggingHandle>>
          /\ ev'.reqs = 1
          /\ _debounceTimer']_vars

\* C22: a pointer-move of a drag that finds no transform is skipped: knots,
\* handles and modes are unchanged and the drag stays active, and the next
\* pointer-move that finds one updates the model as usual (a knot drag puts
\* its knot under the pointer, a handle drag its handle); a double-click that
\* finds no transform inserts nothing and issues no render request.
C22_NoTransformSkips ==
    [][/\ ev'.name = "mousemoveNoCtm"
            => UNCHANGED <<modelVars, markerVars, dragVars, netVars>>
       /\ (/\ ev.name = "mousemoveNoCtm"
           /\ ev'.name = "mousemove"
           /\ Len(drags) = 1
           /\ At(bezier_points, drags[1].idx) # Null)
            => IF drags[1].kind = "knot"
               THEN At(bezier_points', drags[1].idx) = ev'.at
               ELSE At(bezier_handles, drags[1].idx) # Null
                      => LET knot == At(bezier_points, drags[1].idx)
                             own == IF drags[1].side = "in" THEN 1 ELSE 2
                         IN At(bezier_handles', drags[1].idx)[own]
                              = Vec(<<6 * (ev'.at[1] - knot[1]), 6 * (ev'.at[2] - knot[2])>>)
       /\ ev'.name = "dblclickNoCtm"
            => /\ UNCHANGED <<modelVars, markerVars, dragVars, netVars>>
               /\ ev'.reqs = 0]_vars

\* a pointer-move of an active drag has just found no transform
C22_MoveSkippedDuringDrag ==
    /\ ev.name = "mousemoveNoCtm"
    /\ drags # <<>>
    /\ _draggingHandle
    /\ edits < MaxEdits

\* C23: whenever a render request fails (an error reply on the socket, a
\* failed or svg-less reply of the REST fallback) the status indicator is set
\* to the error state, and the displayed render and the model (knots,
\* handles, modes) are unchanged.
C23_FailureShownAndHarmless ==
    [][ev'.name = "renderError"
       => /\ wsStatus' = "error"
          /\ UNCHANGED <<modelVars, markerVars, stale>>]_vars

\* C24: for every knot sequence of length n >= 2 computeCatmullRomHandles
\* returns exactly n handle pairs; for each i the outbound offset is
\* (next - prev) / 6 with prev = knot[i-1] (2 knot[0] - knot[1] when i = 0)
\* and next = knot[i+1] (2 knot[n-1] - knot[n-2] when i = n-1), and the
\* inbound offset is its exact negation; for fewer than 2 knots it returns an
\* empty sequence.
C24_SynthesizedHandles ==
    [][ev'.name = "resetHandles"
       => LET knots == bezier_points
              n == Len(knots)
              prev(i) == IF i = 0
                         THEN <<2 * knots[1][1] - knots[2][1], 2 * knots[1][2] - knots[2][2]>>
                         ELSE knots[i]
              next(i) == IF i = n - 1
                         THEN <<2 * knots[n][1] - knots[n - 1][1],
                                2 * knots[n][2] - knots[n - 1][2]>>
                         ELSE knots[i + 2]
              out(i) == Vec(<<next(i)[1] - prev(i)[1], next(i)[2] - prev(i)[2]>>)
          IN IF n < 2
             THEN bezier_handles' = <<>>
             ELSE /\ Len(bezier_handles') = n
                  /\ \A i \in 0..(n - 1) :
                       /\ Len(bezier_handles'[i + 1]) = 2
                       /\ bezier_handles'[i + 1][2] = out(i)
                       /\ bezier_handles'[i + 1][1].mag = out(i).mag
                       /\ bezier_handles'[i + 1][1].dir[1] = -out(i).dir[1]
                       /\ bezier_handles'[i + 1][1].dir[2] = -out(i).dir[2]]_vars

\* the handles of collinear knots at x = 0, 100, 200 have just been
\* synthesized: the interior knot's outbound offset is (200 - 0) / 6 along x
C24_CollinearSynthesized ==
    /\ ev.name = "resetHandles"
    /\ bezier_points = <<Pt(0, 0), Pt(100, 0), Pt(200, 0)>>
    /\ Len(bezier_handles) = 3
    /\ bezier_handles[2][2] = Vec(<<Px(200), 0>>)
    /\ bezier_handles[2][1] = Vec(<<-Px(200), 0>>)
    /\ bezier_handles[1][2] = Vec(<<Px(200), 0>>)

\* a pointer-move of a drag has just redrawn the preview path from the model
PathBuilt ==
    /\ ev.name = "mousemove"
    /\ ~ev.threw
    /\ drags # <<>>
    /\ \A k \in 1..Len(drags) : drags[k].attached

\* C25: for every knot sequence of length n >= 2 _buildBezierPathD emits a
\* move-to the first knot followed by exactly n-1 cubic commands, the i-th
\* ending at knot i+1, except that with exactly 2 knots and an empty handle
\* sequence it emits a single line-to the second knot; for fewer than 2
\* knots it emits an empty path.
C25_PathCommands ==
    PathBuilt
    => LET knots == bezier_points
           n == Len(knots)
       IN IF n < 2
          THEN previewD = <<>>
          ELSE /\ previewD[1].op = "M"
               /\ previewD[1].to = knots[1]
               /\ IF n = 2 /\ bezier_handles = <<>>
                  THEN /\ Len(previewD) = 2
                       /\ previewD[2].op = "L"
                       /\ previewD[2].to = knots[2]
                  ELSE /\ Len(previewD) = n
                       /\ \A i \in 1..(n - 1) :
                            /\ previewD[i + 1].op = "C"
                            /\ previewD[i + 1].to = knots[i + 1]

\* the preview of three knots has just been drawn as two curves, and the
\* preview of two knots without handles as one line
C25_ThreeKnotsTwoCurves ==
    /\ PathBuilt
    /\ Len(bezier_points) = 3
    /\ Len(previewD) = 3
    /\ previewD[2].op = "C"
    /\ previewD[3].op = "C"
    /\ previewD[3].to = bezier_points[3]

\* the outbound side of knot i, the inbound side of knot i: explicit or not
HasOut(handles, i) ==
    /\ i < Len(handles)
    /\ handles[i + 1] # Null
    /\ Len(handles[i + 1]) > 1
    /\ handles[i + 1][2] # Null
HasIn(handles, i) ==
    /\ i < Len(handles)
    /\ handles[i + 1] # Null
    /\ handles[i + 1][1] # Null

\* C26: for each segment i the first control point is p_i + outboundHandle(i)
\* when knot i has an explicit outbound handle and p_i + (p_ip1 - p_im1)/6
\* otherwise, and the second is p_ip1 + inboundHandle(i+1) when knot i+1 has
\* an explicit inbound handle and p_ip1 - (p_ip2 - p_i)/6 otherwise, p_im1
\* and p_ip2 being the neighbouring knots or their reflections at the ends; a
\* null or missing entry selects the default for that knot only.
C26_ControlPoints ==
    (PathBuilt /\ Len(bezier_points) >= 2
       /\ ~(Len(bezier_points) = 2 /\ bezier_handles = <<>>))
    => LET knots == bezier_points
           handles == bezier_handles
           n == Len(knots)
           p_im1(i) == IF i = 0
                       THEN <<2 * knots[1][1] - knots[2][1], 2 * knots[1][2] - knots[2][2]>>
                       ELSE knots[i]
           p_ip2(i) == IF i + 2 >= n
                       THEN <<2 * knots[i + 2][1] - knots[i + 1][1],
                              2 * knots[i + 2][2] - knots[i + 1][2]>>
                       ELSE knots[i + 3]
       IN \A i \in 0..(n - 2) :
            LET seg == previewD[i + 2]
                p_i == knots[i + 1]
                p_ip1 == knots[i + 2]
            IN /\ seg.cp1.at = p_i
               /\ seg.cp2.at = p_ip1
               /\ IF HasOut(handles, i)
                  THEN seg.cp1.off = handles[i + 1][2]
                  ELSE seg.cp1.off
                         = Vec(<<p_ip1[1] - p_im1(i)[1], p_ip1[2] - p_im1(i)[2]>>)
               /\ IF HasIn(handles, i + 1)
                  THEN seg.cp2.off = handles[i + 2][1]
                  ELSE seg.cp2.off
                         = Vec(<<p_i[1] - p_ip2(i)[1], p_i[2] - p_ip2(i)[2]>>)

\* a preview has just been drawn for three knots whose middle handle entry is
\* missing: the control points at the middle knot are the default ones, those
\* at the end knots the explicit ones
C26_MissingEntryDefaults ==
    /\ PathBuilt
    /\ Len(bezier_points) = 3
    /\ bezier_handles = <<ExplicitPair, Null, ExplicitPair>>
    /\ previewD[2].cp1.off = ExplicitPair[2]
    /\ previewD[2].cp2.off # ExplicitPair[1]
    /\ previewD[3].cp1.off # ExplicitPair[2]
    /\ previewD[3].cp2.off = ExplicitPair[1]

C28_ZoomWithinRange ==
    /\ [](zoomLevel >= ZoomMin /\ zoomLevel <= ZoomMax)
    /\ [][/\ ev'.name = "wheel"
             => LET product == ev'.d * zoomLevel
                IN  /\ ev'.d \in {9, 11}
                    /\ product < 10 * ZoomMin => zoomLevel' = ZoomMin
                    /\ product > 10 * ZoomMax => zoomLevel' = ZoomMax
                    /\ (product >= 10 * ZoomMin /\ product <= 10 * ZoomMax)
                       => /\ 10 * zoomLevel' <= product
                          /\ product < 10 * zoomLevel' + 10
          /\ ev'.name = "resetZoom" => zoomLevel' = ZoomUnit]_vars

\* a wheel event has taken the product below 0.1 and the zoom factor was
\* clamped to the floor
C28_ClampedAtFloor ==
    /\ ev.name = "wheel"
    /\ ev.d = 9
    /\ zoomLevel = ZoomMin

\* C29 as stated: from zoom factor 1.0, ten zoom-out events in a row bring
\* the zoom factor to the floor 0.1, and ten zoom-in events in a row bring it
\* to the ceiling 5.0; further events of the same kind leave it there.
C29_TenEventsReachTheEnd ==
    (ev.name = "wheel" /\ ev.from = ZoomUnit /\ ev.run >= 10)
    => zoomLevel = (IF ev.d = 9 THEN ZoomMin ELSE ZoomMax)

\* the number of wheel events in a row that take the zoom factor from 1.0
\* to the floor (factor 0.9) and to the ceiling (factor 1.1)
EventsToEnd(d) == IF d = 9 THEN 22 ELSE 17

\* C29 amended: from zoom factor 1.0, 22 zoom-out events in a row bring the
\* zoom factor to the floor 0.1 and 17 zoom-in events in a row bring it to
\* the ceiling 5.0, no fewer; further events of the same kind leave it there.
C29_EventsToReachTheEnd ==
    (ev.name = "wheel" /\ ev.from = ZoomUnit)
    => IF ev.run >= EventsToEnd(ev.d)
       THEN zoomLevel = (IF ev.d = 9 THEN ZoomMin ELSE ZoomMax)
       ELSE zoomLevel > ZoomMin /\ zoomLevel < ZoomMax

\* the zoom factor has come from 1.0 to the ceiling by zoom-in events alone,
\* and one more has left it there
C29_HeldAtCeiling ==
    /\ ev.name = "wheel"
    /\ ev.d = 11
    /\ ev.from = ZoomUnit
    /\ ev.run > EventsToEnd(11)
    /\ zoomLevel = ZoomMax

\* a pointer-move reached the window
IsMove(e) == e.name \in {"mousemove", "mousemoveNoCtm"}

C31_ReplyRestoresLengths ==
    [][(ev'.name = "renderOk" /\ shape = "bezier" /\ Len(bezier_points) >= 2)
       => /\ Len(bezier_handles') = Len(bezier_points)
          /\ Len(bezier_knot_modes') = Len(bezier_points)
          /\ bezier_handles' =
                IF Len(bezier_handles) = Len(bezier_points)
                THEN bezier_handles
                ELSE computeCatmullRomHandles(bezier_points)
          /\ bezier_knot_modes' =
                IF Len(bezier_knot_modes) = Len(bezier_points)
                THEN bezier_knot_modes
                ELSE AllSmooth(bezier_points)]_vars

\* C32: from the default knots and with no knot drag made, the knots are in
\* ascending order of x after any sequence of double-click inserts, clicks
\* on '+ Add point', removals by secondary click and clicks on 'Reset points'.
C32_KnotsStaySorted == SortedByX(bezier_points)

\* C33: for the whole of a drag the surface the drag began on stays the one
\* displayed: no render reply replaces it between the pointer-down and the
\* pointer-up, so every pointer-move of the drag redraws the preview path
\* and the markers on the surface the user sees.
C33_DragSurfaceStaysDisplayed ==
    /\ [](\A k \in 1..Len(drags) : drags[k].attached)
    /\ [][(ev'.name = "renderOk" /\ hasSvg') => drags = <<>>]_vars

\* C34: in every reachable state in which a knot drag or a handle drag is
\* active on index i, i is an index of the knots, of the handles and of the
\* modes of the current model, so that a move of the drag neither writes
\* past the end of the knots nor reads a handle entry that is missing.
C34_DragIndexValid ==
    \A k \in 1..Len(drags) :
        /\ drags[k].idx >= 0
        /\ drags[k].idx < Len(bezier_points)
        /\ drags[k].idx < Len(bezier_handles)
        /\ drags[k].idx < Len(bezier_knot_modes)

\* C35: each firing of the debounce timer transmits the scene state exactly
\* once: over the socket if and only if the socket is marked ready, otherwise
\* by one REST POST; the state is never sent on a socket that has reported
\* close or error since it last opened, and no request is dropped while the
\* socket is down.
C35_OneTransmissionPerFiring ==
    /\ [](wsReady => ws = "open")
    /\ [][ev'.name = "send"
          => /\ _debounceTimer /\ ~_debounceTimer'
             /\ Len(requests') = Len(requests) + 1
             /\ SubSeq(requests', 1, Len(requests)) = requests
             /\ inflight' = inflight + 1
             /\ ev'.sent = Payload
             /\ LET sent == requests'[Len(requests')]
                IN  /\ sent.via \in {"ws", "rest"}
                    /\ sent.via = "ws" <=> wsReady
                    /\ sent.via = "ws" => ws = "open"
                    /\ sent.via = "rest" => ws # "open"]_vars

\* the timer fired after the socket had reported its close, and the state
\* went out by REST
C35_SentByRestWhileDown ==
    /\ ev.name = "send"
    /\ ws = "closed"
    /\ wsStatus = "disconnected"
    /\ requests # <<>>
    /\ requests[Len(requests)].via = "rest"

C37_SynthesizedHandlesKeepCurve ==
    [][(ev'.name = "resetHandles" /\ ~ev'.threw)
       => LET knots == bezier_points
              lazy == _buildBezierPathD(knots, <<>>)
              synced == _buildBezierPathD(knots, bezier_handles')
          IN  /\ Len(knots) >= 3 => synced = lazy
              /\ Len(knots) = 2
                 => LET third == <<2 * (knots[2][1] - knots[1][1]),
                                   2 * (knots[2][2] - knots[1][2])>>
                    IN  /\ lazy = <<MoveTo(knots[1]), LineTo(knots[2])>>
                        /\ synced = <<MoveTo(knots[1]),
                                      CurveTo(Ctl(knots[1], Vec(third)),
                                              Ctl(knots[2], Vec(<<-third[1], -third[2]>>)),
                                              knots[2])>>]_vars

\* the handles of three knots that are not on one line have been filled in
\* and the path is the one drawn without handles
C37_ThreeKnotsSameCurve ==
    /\ ev.name = "resetHandles"
    /\ Len(bezier_points) = 3
    /\ bezier_points[3] = Pt(450, 250)
    /\ bezier_points[1] # bezier_points[2]
    /\ Len(bezier_handles) = 3
    /\ Len(_buildBezierPathD(bezier_points, bezier_handles)) = 3
    /\ _buildBezierPathD(bezier_points, bezier_handles) = _buildBezierPathD(bezier_points, <<>>)

\* C38: the mode-toggle gesture (a pointer-down with the primary button and
\* Alt on a knot marker, then the pointer-up and the click) starts neither a
\* drag nor a pan: the panning flag stays false through the gesture and the
\* pointer-moves made during it leave the pan offset as it is.
C38_ToggleStartsNeitherDragNorPan ==
    /\ [](ev.name = "altdown" => ~isPanning /\ ~_draggingHandle /\ drags = <<>>)
    /\ [][(ev.name = "altdown" /\ ev'.name = "mousemove") => pan' = pan]_vars

=============================================================================
